---- MODULE Spec2Model ----
(***************************************************************************)
(* Model of emmet.core.arrow (arrowize, remove_empty_keys,                 *)
(* cleanup_msonables), emmet.core.utils.jsanitize and the ArrowModel codec *)
(* of emmet.core.base.                                                     *)
(*                                                                         *)
(* A type descriptor (a Python annotation) is a record                     *)
(*   [k |-> kind, n |-> name, names |-> field names, args |-> members]     *)
(* and a pyarrow DataType is a record                                      *)
(*   [k |-> kind, n |-> detail, size |-> list size, names, args].          *)
(* A call of arrowize that raises is the pyarrow-side record of kind       *)
(* "error" whose n is the Python exception class.                          *)
(***************************************************************************)
EXTENDS Integers, Sequences, FiniteSets, TLC

VARIABLES pc, desc, result, value, sanitized, cell, decoded, caller_value,
          table, adapters, threads,
          request, query, docs, response

\* the state shared by concurrent callers and the callers themselves
callVars == <<table, adapters, threads>>

\* the state of one request to a summary route of the API
apiVars == <<request, query, docs, response>>

vars == <<pc, desc, result, value, sanitized, cell, decoded, caller_value,
          callVars, apiVars>>

-----------------------------------------------------------------------------
(* Bounds of the explored input space.                                     *)

\* longest argument list of a tuple, union, literal or record descriptor
MaxArity == 3

-----------------------------------------------------------------------------
(* Sequence helpers.                                                       *)

Range(s) == {s[i] : i \in 1..Len(s)}

\* the sequences over S of length lo..hi
SeqsOf(S, lo, hi) == UNION {[1..m -> S] : m \in lo..hi}

\* the sequences over S of length lo..hi without a repeated member
InjSeqsOf(S, lo, hi) ==
    {s \in SeqsOf(S, lo, hi) : \A i, j \in 1..Len(s) : s[i] = s[j] => i = j}

\* s without its members equal to drop, order preserved (filter())
RECURSIVE FilterSeq(_, _)
FilterSeq(s, drop) ==
    IF s = <<>> THEN <<>>
    ELSE IF Head(s) = drop THEN FilterSeq(Tail(s), drop)
    ELSE <<Head(s)>> \o FilterSeq(Tail(s), drop)

-----------------------------------------------------------------------------
(* Type descriptors: the annotations arrowize dispatches on.               *)

Desc(k, n, names, args) == [k |-> k, n |-> n, names |-> names, args |-> args]

TInt      == Desc("prim", "int", <<>>, <<>>)
TFloat    == Desc("prim", "float", <<>>, <<>>)
TStr      == Desc("prim", "str", <<>>, <<>>)
TBool     == Desc("prim", "bool", <<>>, <<>>)
TDatetime == Desc("prim", "datetime", <<>>, <<>>)
NoneType  == Desc("none", "NoneType", <<>>, <<>>)
TAny      == Desc("any", "Any", <<>>, <<>>)

\* a container class or typing alias used without type arguments
Bare(n) == Desc("bare", n, <<>>, <<>>)

\* list[...], tuple[...], set[...]: origin n, type arguments args
Generic(n, args) == Desc("seq", n, <<>>, args)

\* dict[K, V] / Mapping[K, V]
MapOf(key, val) == Desc("map", "dict", <<>>, <<key, val>>)

\* a Literal member: a concrete Python value of class n, printed as text
LitVal(n, text) == Desc("value", n, <<text>>, <<>>)

LiteralOf(vals) == Desc("literal", "Literal", <<>>, vals)

\* an Enum subclass; n is the primitive it also subclasses ("" for none)
EnumOf(n) == Desc("enum", n, <<>>, <<>>)

\* Union[...]; typing keeps the members flat, distinct and at least two
UnionOf(args) == Desc("union", "Union", <<>>, args)

\* a pydantic model class with its model_fields in declaration order
ModelOf(names, args) == Desc("model", "BaseModel", names, args)

\* a TypedDict class with its __annotations__ in declaration order
TypedDictOf(names, args) == Desc("typeddict", "TypedDict", names, args)

ImportString == Desc("importstring", "ImportString", <<>>, <<>>)

\* ForwardRef("n")
ForwardRef(n) == Desc("ref", n, <<>>, <<>>)

\* an MSONable subclass named n
MSONableOf(n) == Desc("msonable", n, <<>>, <<>>)

\* any other class; n is the first primitive it subclasses ("object": none)
ClassOf(n) == Desc("class", n, <<>>, <<>>)

\* a subscripted generic whose origin is not list/tuple/set/dict/Mapping,
\* e.g. typing.Sequence[str]: not a class
AliasOf(n, args) == Desc("alias", n, <<>>, args)

\* typing.Optional[T]: Union[T, None], flattened when T is a union and
\* unchanged when T already has the None member
Optional(t) ==
    IF t.k = "none" THEN t
    ELSE IF t.k = "union"
         THEN IF NoneType \in Range(t.args) THEN t
              ELSE UnionOf(Append(t.args, NoneType))
    ELSE UnionOf(<<t, NoneType>>)

\* Python's == on two annotations: Union and Literal compare their members
\* as sets, every other annotation member by member
RECURSIVE TypeEq(_, _)
TypeEq(a, b) ==
    /\ a.k = b.k
    /\ a.n = b.n
    /\ a.names = b.names
    /\ IF a.k \in {"union", "literal"}
       THEN /\ \A i \in 1..Len(a.args) : \E j \in 1..Len(b.args) :
                   TypeEq(a.args[i], b.args[j])
            /\ \A j \in 1..Len(b.args) : \E i \in 1..Len(a.args) :
                   TypeEq(a.args[i], b.args[j])
       ELSE /\ Len(a.args) = Len(b.args)
            /\ \A i \in 1..Len(a.args) : TypeEq(a.args[i], b.args[i])

\* isinstance(member, cls) for Literal members: bool is a subclass of int
IsInstance(v, cls) == v.n = cls \/ (v.n = "bool" /\ cls = "int")

-----------------------------------------------------------------------------
(* pyarrow data types.                                                     *)

Arrow(k, n, size, names, args) ==
    [k |-> k, n |-> n, size |-> size, names |-> names, args |-> args]

Int64     == Arrow("int64", "", 0, <<>>, <<>>)
Float64   == Arrow("double", "", 0, <<>>, <<>>)
Utf8      == Arrow("string", "", 0, <<>>, <<>>)
Bool      == Arrow("bool", "", 0, <<>>, <<>>)
Timestamp == Arrow("timestamp", "us", 0, <<>>, <<>>)

\* pa.list_(t) and pa.list_(t, size)
ListType(t)           == Arrow("list", "", 0, <<>>, <<t>>)
FixedListType(t, size) == Arrow("fixed_size_list", "", size, <<>>, <<t>>)

\* pa.map_(key, item)
MapType(key, item) == Arrow("map", "", 0, <<>>, <<key, item>>)

\* pa.struct / pa.dense_union of pa.field(names[i], args[i])
StructType(names, args)     == Arrow("struct", "", 0, names, args)
DenseUnionType(names, args) == Arrow("dense_union", "", 0, names, args)

\* a raised exception of class n
Raise(n) == Arrow("error", n, 0, <<>>, <<>>)

IsError(t) == t.k = "error"

\* the exception a list comprehension propagates: that of its first member
\* whose evaluation raises
FirstError(ts) ==
    ts[CHOOSE i \in 1..Len(ts) :
          /\ IsError(ts[i])
          /\ \A j \in 1..(i - 1) : ~IsError(ts[j])]

\* a propagation that notices the exception of the first member only
HasError_first_only(ts) == IsError(ts[1])

\* some member of a list comprehension raises
HasError(ts) == \E i \in 1..Len(ts) : IsError(ts[i])

\* child names counted from one
ChildNames_from_one(n) == [i \in 1..n |-> "child_" \o ToString(i)]

\* f"child_{idx}" for idx in range(n)
ChildNames(n) == [i \in 1..n |-> "child_" \o ToString(i - 1)]

PrimitiveNames == {"int", "float", "str", "bool", "datetime"}

PY_PRIMITIVES_TO_ARROW ==
    [p \in PrimitiveNames |->
        CASE p = "int"      -> Int64
          [] p = "float"    -> Float64
          [] p = "str"      -> Utf8
          [] p = "bool"     -> Bool
          [] p = "datetime" -> Timestamp]

\* the containers the first assert of arrowize rejects
BareContainers ==
    {"list", "tuple", "set", "dict",
     "typing.Dict", "typing.List", "typing.Set", "typing.Tuple"}

\* MSONableTypedLatticeDict, the root annotation of LatticeAdapter
MSONableTypedLatticeDict ==
    TypedDictOf(
        <<"@module", "@class", "matrix", "pbc", "a", "b", "c",
          "alpha", "beta", "gamma", "volume">>,
        <<TStr, TStr,
          Generic("list", <<Generic("list", <<TFloat, TFloat, TFloat>>)>>),
          Generic("list", <<TBool, TBool, TBool>>),
          TFloat, TFloat, TFloat, TFloat, TFloat, TFloat, TFloat>>)

\* MSONableTypedSpeciesDict, the root annotation of SpeciesAdapter
MSONableTypedSpeciesDict ==
    TypedDictOf(<<"@module", "@class", "element", "oxidation_state", "spin">>,
                <<TStr, TStr, TStr, TFloat, TFloat>>)

\* MSONable classes that carry a __pydantic_model__ adapter, with the
\* annotation of the adapter's root field
AdapterRoot ==
    [c \in {"Lattice", "Species"} |->
        IF c = "Lattice" THEN MSONableTypedLatticeDict
        ELSE MSONableTypedSpeciesDict]

\* hasattr(obj, "__pydantic_model__")
has_adapter(registry, n) == n \in DOMAIN registry

\* a lookup that takes the string form for the representation of a class
adapter_root_guessed(registry, n) == TStr

\* obj.__pydantic_model__.model_fields["root"].annotation
adapter_root(registry, n) == registry[n]

\* PropertyOrigin, the record class imported by emmet.core.material_property
PropertyOrigin ==
    ModelOf(<<"name", "task_id", "last_updated">>,
            <<TStr, ClassOf("str"), TDatetime>>)

\* the names a forward reference written in emmet.core.material_property
\* can see: the module namespace of that file
ReferenceNamespace ==
    [c \in {"datetime", "PropertyOrigin"} |->
        IF c = "datetime" THEN TDatetime ELSE PropertyOrigin]

\* what ForwardRef._evaluate finds for a name in the module globals of
\* emmet.core.arrow
ArrowGlobals ==
    [c \in {"datetime", "Any"} |->
        IF c = "datetime" THEN TDatetime ELSE TAny]

\* a filter that loses only a None in last position (Optional[T] spelling)
non_none_args_last_only(args) ==
    IF args[Len(args)] = NoneType THEN SubSeq(args, 1, Len(args) - 1) ELSE args

\* a filter that also drops the members arrowize cannot resolve
non_none_args_and_ambiguous(args) ==
    SelectSeq(args, LAMBDA a : a.k \notin {"none", "bare", "any"})

\* filter(lambda x: x is not types.NoneType, obj.__args__)
non_none_args(args) == FilterSeq(args, NoneType)

\* a comparison that also takes Optional[T] and T for the same member
all_members_equal_modulo_none(args) ==
    \A i \in 1..Len(args) : TypeEq(Optional(args[i]), Optional(args[1]))

\* all([member == args[0] for member in args])
all_members_equal(args) == \A i \in 1..Len(args) : TypeEq(args[i], args[1])

\* a key test that looks at the annotation instead of the resolved type
is_union_key_by_annotation(key, key_type) ==
    key.k = "union" \/ key_type.k \in {"dense_union", "sparse_union"}

\* isinstance(key_type, pa.UnionType), key_type = arrowize(key)
is_union_key(key, key_type) == key_type.k \in {"dense_union", "sparse_union"}

\* all(isinstance(member, first_type) for member in args)
literal_is_uniform(args) ==
    \A i \in 1..Len(args) : IsInstance(args[i], args[1].n)

\* the members of ts, each kept at its first occurrence only
RECURSIVE Distinct(_)
Distinct(ts) ==
    IF ts = <<>> THEN <<>>
    ELSE LET front == Distinct(SubSeq(ts, 1, Len(ts) - 1))
             last == ts[Len(ts)]
         IN  IF last \in Range(front) THEN front ELSE Append(front, last)

\* a union branch that gives one child to each distinct resolved type
union_type_distinct(arrow_types) ==
    IF \A i \in 1..Len(arrow_types) : arrow_types[i] = arrow_types[1]
    THEN arrow_types[1]
    ELSE DenseUnionType(ChildNames(Len(Distinct(arrow_types))),
                        Distinct(arrow_types))

union_type_rejects_mixed(arrow_types) ==
    IF \A i \in 1..Len(arrow_types) : arrow_types[i] = arrow_types[1]
    THEN arrow_types[1]
    ELSE Raise("AssertionError")

union_type_always_dense(arrow_types) ==
    DenseUnionType(ChildNames(Len(arrow_types)), arrow_types)

\* the value of the union branch once every member has been resolved
union_type(arrow_types) ==
    IF \A i \in 1..Len(arrow_types) : arrow_types[i] = arrow_types[1]
    THEN arrow_types[1]
    ELSE DenseUnionType(ChildNames(Len(arrow_types)), arrow_types)

tuple_type_distinct(members) ==
    DenseUnionType(ChildNames(Len(Distinct(members))), Distinct(members))

\* the value of the list/tuple/set branch for members that differ: one child
\* per position
tuple_type(members) == DenseUnionType(ChildNames(Len(members)), members)

Reverse(s) == [i \in 1..Len(s) |-> s[Len(s) + 1 - i]]

\* a struct whose fields come out in the opposite of declaration order
struct_type_reversed(names, fields) == StructType(Reverse(names), Reverse(fields))

\* pa.struct([pa.field(field_name, ...) for field_name, value in ...items()])
struct_type(names, fields) == StructType(names, fields)

\* arrowize(obj): the pyarrow type of an annotation, or the raised exception
is_enum_plain_only(obj) == obj.k = "enum" /\ obj.n = ""

\* isinstance(obj, type) and issubclass(obj, Enum)
is_enum(obj) == obj.k = "enum"

RECURSIVE arrowize_in(_, _, _)
arrowize_in(primitives, registry, obj) ==
    IF obj.k = "bare" /\ obj.n \in BareContainers THEN Raise("AssertionError")
    ELSE IF obj.k = "any" THEN Raise("AssertionError")
    ELSE IF obj.k = "prim" /\ obj.n \in DOMAIN primitives THEN primitives[obj.n]
    ELSE IF obj.k = "seq" THEN
        LET args == obj.args
            first == arrowize_in(primitives, registry, args[1])
            members == [i \in 1..Len(args) |->
                           arrowize_in(primitives, registry, args[i])]
        IN  IF Len(args) = 1
            THEN IF IsError(first) THEN first ELSE ListType(first)
            ELSE IF all_members_equal(args)
            THEN IF IsError(first) THEN first
                 ELSE FixedListType(first, Len(args))
            ELSE IF HasError(members) THEN FirstError(members)
            ELSE tuple_type(members)
    ELSE IF obj.k = "map" THEN
        LET key_type == arrowize_in(primitives, registry, obj.args[1])
            item_type == arrowize_in(primitives, registry, obj.args[2])
        IN  IF IsError(key_type) THEN key_type
            ELSE IF is_union_key(obj.args[1], key_type) THEN Raise("AssertionError")
            ELSE IF IsError(item_type) THEN item_type
            ELSE MapType(key_type, item_type)
    ELSE IF obj.k = "literal" THEN
        LET args == obj.args
            first_type == args[1].n
        IN  IF ~literal_is_uniform(args) THEN Raise("AssertionError")
            ELSE IF first_type \in DOMAIN primitives
            THEN primitives[first_type]
            ELSE Raise("KeyError")
    ELSE IF is_enum(obj) THEN primitives["str"]
    ELSE IF obj.k = "union" THEN
        LET kept == non_none_args(obj.args)
            arrow_types == [i \in 1..Len(kept) |-> arrowize_in(primitives, registry, kept[i])]
        IN  IF HasError(arrow_types) THEN FirstError(arrow_types)
            ELSE union_type(arrow_types)
    ELSE IF obj.k \in {"model", "typeddict"} THEN
        LET fields == [i \in 1..Len(obj.args) |-> arrowize_in(primitives, registry, obj.args[i])]
        IN  IF HasError(fields) THEN FirstError(fields)
            ELSE struct_type(obj.names, fields)
    ELSE IF obj.k = "importstring" THEN primitives["str"]
    ELSE IF obj.k = "ref" THEN
        IF obj.n \in DOMAIN ArrowGlobals
        THEN arrowize_in(primitives, registry, ArrowGlobals[obj.n])
        ELSE Raise("NameError")
    ELSE IF obj.k \in {"alias", "value"} THEN Raise("TypeError")
    ELSE IF obj.k = "msonable" THEN
        IF has_adapter(registry, obj.n)
        THEN arrowize_in(primitives, registry, adapter_root(registry, obj.n))
        ELSE Raise("AssertionError")
    ELSE IF obj.n \in DOMAIN primitives
    THEN arrowize_in(primitives, registry, Desc("prim", obj.n, <<>>, <<>>))
    ELSE Raise("StopIteration")

\* arrowize(obj), with the module's primitive table and the adapters that
\* emmet.core.serialization_adapters registers at import
arrowize(obj) == arrowize_in(PY_PRIMITIVES_TO_ARROW, AdapterRoot, obj)

-----------------------------------------------------------------------------
(* The annotations explored.                                               *)

LitValues == {LitVal("int", "1"), LitVal("bool", "True"), LitVal("str", "a")}

Literals == {LiteralOf(s) : s \in InjSeqsOf(LitValues, 1, MaxArity)}

Primitives == {Desc("prim", p, <<>>, <<>>) : p \in PrimitiveNames}

\* annotations without members
Leaves ==
    Primitives \cup Literals
    \cup {Bare(n) : n \in BareContainers}
    \cup {TAny, NoneType, ImportString,
          EnumOf(""), EnumOf("str"), EnumOf("int"),
          ForwardRef("datetime"), ForwardRef("Any"), ForwardRef("Lattice"),
          ForwardRef("PropertyOrigin"),
          MSONableOf("Lattice"), MSONableOf("Species"), MSONableOf("Element"),
          ClassOf("str"), ClassOf("object"),
          AliasOf("Sequence", <<TStr>>)}

\* EmmetMeta and EmmetBaseModel of emmet.core.base
EmmetMeta ==
    ModelOf(<<"emmet_version", "pymatgen_version", "run_id", "batch_id",
              "database_version", "build_date", "license">>,
            <<Optional(TStr), Optional(TStr), Optional(TStr), Optional(TStr),
              Optional(TStr), Optional(TDatetime),
              Optional(LiteralOf(<<LitVal("str", "BY-C"), LitVal("str", "BY-NC")>>))>>)

EmmetBaseModel == ModelOf(<<"builder_meta">>, <<Optional(EmmetMeta)>>)

\* PropertyDoc of emmet.core.material_property, with the fields the class
\* itself declares
PropertyDoc ==
    ModelOf(<<"property_name", "material_id", "deprecated",
              "deprecation_reasons", "last_updated", "origins", "warnings">>,
            <<TStr, Optional(ClassOf("str")), TBool,
              Optional(Generic("list", <<UnionOf(<<EnumOf(""), TStr>>)>>)),
              TDatetime,
              AliasOf("Sequence", <<PropertyOrigin>>),
              AliasOf("Sequence", <<TStr>>)>>)

\* the pydantic document models of the emmet.core modules
CoreModels == {EmmetMeta, EmmetBaseModel, PropertyDoc}

\* the member annotations of the first level of containers
Members ==
    {TInt, TStr, TFloat, Bare("list"), TAny,
     LiteralOf(<<LitVal("int", "1")>>), EnumOf("")}

FieldNames == {"a", "b", "c"}

FieldTypes == {TInt, TStr, Bare("dict"), Optional(TInt)}

Records ==
    {r \in UNION {{ModelOf(names, args), TypedDictOf(names, args)} :
                    names \in InjSeqsOf(FieldNames, 1, MaxArity),
                    args \in SeqsOf(FieldTypes, 1, MaxArity)} :
        Len(r.names) = Len(r.args)}

Unions == {UnionOf(s) : s \in InjSeqsOf(Members \cup {NoneType}, 2, MaxArity)}

Level1 ==
    {Generic("tuple", s) : s \in SeqsOf(Members, 1, MaxArity)}
    \cup {Generic(o, <<m>>) : o \in {"list", "set"}, m \in Members}
    \cup {Generic("list", <<m, m, m>>) : m \in Members}
    \cup {MapOf(key, val) : key \in Members, val \in Members}
    \cup Unions
    \cup Records

Inner == Leaves \cup Level1

Level2 ==
    {Optional(t) : t \in Inner}
    \cup {Generic("list", <<t>>) : t \in Inner}
    \cup {Generic("tuple", <<TInt, t>>) : t \in Inner}
    \cup {Generic("tuple", <<t, t>>) : t \in Inner}
    \cup {MapOf(t, TInt) : t \in Inner}
    \cup {MapOf(TStr, t) : t \in Inner}
    \cup {MapOf(Optional(TInt), m) : m \in Members}
    \cup {UnionOf(<<TStr, t>>) : t \in {u \in Inner : u.k \notin {"union", "none"} /\ u # TStr}}
    \cup {ModelOf(<<"b", "a", "c">>, <<t, TInt, Optional(TStr)>>) : t \in Inner}

Descriptors == Leaves \cup Level1 \cup Level2 \cup CoreModels

-----------------------------------------------------------------------------
(* Values handled by the codec.  A Python value is a record                *)
(*   [k |-> class, s |-> text of a scalar, keys |-> dict keys,             *)
(*    items |-> dict values or sequence members]                           *)
(* and a pyarrow scalar (a columnar cell) is a record of the same shape    *)
(* whose k is the pyarrow type it was built under.                         *)

Val(k, s, keys, items) == [k |-> k, s |-> s, keys |-> keys, items |-> items]

VNone         == Val("none", "None", <<>>, <<>>)
VInt(s)       == Val("int", s, <<>>, <<>>)
VFloat(s)     == Val("float", s, <<>>, <<>>)
VBool(s)      == Val("bool", s, <<>>, <<>>)
VStr(s)       == Val("str", s, <<>>, <<>>)
VDatetime(s)  == Val("datetime", s, <<>>, <<>>)
VList(items)  == Val("list", "", <<>>, items)
VDict(keys, items) == Val("dict", "", keys, items)

\* an MSONable object; keys/items are the entries of its as_dict()
VMSONable(keys, items) == Val("msonable", "", keys, items)

\* an Enum member whose .value is v
VEnum(v) == Val("enum", "", <<>>, <<v>>)

\* a raised exception of class n
VError(n) == Val("error", n, <<>>, <<>>)

NoValue == VNone

IsVError(v) == v.k = "error"

HasVError(vs) == \E i \in 1..Len(vs) : IsVError(vs[i])

FirstVError(vs) ==
    vs[CHOOSE i \in 1..Len(vs) :
          /\ IsVError(vs[i])
          /\ \A j \in 1..(i - 1) : ~IsVError(vs[j])]

\* key in d
HasKey(d, key) == \E i \in 1..Len(d.keys) : d.keys[i] = key

\* d[key]
Lookup(d, key) == d.items[CHOOSE i \in 1..Len(d.keys) : d.keys[i] = key]

\* d.get(key): None when the key is missing
Get(d, key) == IF HasKey(d, key) THEN Lookup(d, key) ELSE VNone

\* k.__str__() of a dict key
Str(v) == VStr(v.s)

\* a sanitizer without the NaN test
IsNaN_never(v) == FALSE

\* np.isnan(obj)
IsNaN(v) == v.k = "float" /\ v.s = "nan"

\* jsanitize(obj, strict, allow_bson)
RECURSIVE jsanitize(_, _, _)
jsanitize(obj, strict, allow_bson) ==
    IF allow_bson /\ obj.k \in {"datetime", "bytes", "ObjectId"} THEN obj
    ELSE IF obj.k \in {"list", "tuple", "set", "ndarray"} THEN
        VList([i \in 1..Len(obj.items) |->
                  jsanitize(obj.items[i], strict, allow_bson)])
    ELSE IF obj.k = "enum" THEN obj.items[1]
    ELSE IF obj.k \in {"dict", "msonable", "basemodel"} THEN
        VDict([i \in 1..Len(obj.keys) |-> Str(obj.keys[i])],
              [i \in 1..Len(obj.items) |->
                  jsanitize(obj.items[i], strict, allow_bson)])
    ELSE IF obj.k \in {"int", "float", "bool"} THEN
        IF IsNaN(obj) THEN VInt("0") ELSE obj
    ELSE IF obj.k = "none" THEN VNone
    ELSE IF ~strict THEN Str(obj)
    ELSE IF obj.k = "str" THEN Str(obj)
    ELSE VError("AttributeError")

\* a test that also takes an empty dict for a missing value
is_none_or_empty(v) == v.k = "none" \/ (v.k = "dict" /\ v.keys = <<>>)

\* v is None: the entries remove_empty_keys deletes
is_none(v) == v.k = "none"

\* the positions of d whose entry remove_empty_keys keeps
KeptEntries(d) ==
    SelectSeq([i \in 1..Len(d.items) |-> i], LAMBDA i : ~is_none(d.items[i]))

\* remove_empty_keys(d): d after the in-place deletions
RECURSIVE remove_empty_keys(_)
remove_empty_keys(d) ==
    LET idx == KeptEntries(d)
        strip(v) ==
            IF v.k = "dict" THEN remove_empty_keys(v)
            ELSE IF v.k = "list" THEN
                VList([j \in 1..Len(v.items) |->
                          IF v.items[j].k = "dict"
                          THEN remove_empty_keys(v.items[j])
                          ELSE v.items[j]])
            ELSE v
    IN  VDict([j \in 1..Len(idx) |-> d.keys[idx[j]]],
              [j \in 1..Len(idx) |-> strip(d.items[idx[j]])])

\* a test that takes every dict for a serialized MSONable
is_any_dict(v) == v.k = "dict"

\* isinstance(v, dict) and "@class" in v
is_msonable_dict(v) == v.k = "dict" /\ HasKey(v, VStr("@class"))

\* cleanup_msonables(d)
cleanup_msonables(d) ==
    LET clean == jsanitize(d, FALSE, TRUE)
    IN  VDict(clean.keys,
              [i \in 1..Len(clean.items) |->
                  IF is_msonable_dict(clean.items[i])
                  THEN remove_empty_keys(clean.items[i])
                  ELSE clean.items[i]])

\* a sanitizer that returns every container it is given
jsanitize_copies_nothing(obj) == FALSE

\* a sanitizer that returns the dicts it is given instead of rebuilding them
jsanitize_copies_lists_only(obj) == obj.k = "list"

\* jsanitize returns a newly built list or dict for obj, not obj itself
jsanitize_copies(obj) == obj.k \in {"list", "dict", "msonable"}

\* the dict the caller passed to cleanup_msonables, as the caller sees it
\* after the call: remove_empty_keys deletes in place, in the values of the
\* sanitized dict, and reaches a value of d only if jsanitize returned that
\* value itself
value_after_cleanup(d) ==
    LET clean == jsanitize(d, FALSE, TRUE)
    IN  VDict(d.keys,
              [i \in 1..Len(d.items) |->
                  IF is_msonable_dict(clean.items[i]) /\ ~jsanitize_copies(d.items[i])
                  THEN remove_empty_keys(d.items[i])
                  ELSE d.items[i]])

\* pa.scalar(v, type=ty): the pyarrow scalar of a sanitized value
RECURSIVE pa_scalar(_, _)
pa_scalar(v, ty) ==
    IF IsError(ty) THEN VError(ty.n)
    ELSE IF v.k = "none" THEN Val("null", "", <<>>, <<>>)
    ELSE IF ty.k = "int64" THEN
        IF v.k = "int" THEN Val("int64", v.s, <<>>, <<>>)
        ELSE VError("ArrowInvalid")
    ELSE IF ty.k = "double" THEN
        IF v.k \in {"int", "float"} THEN Val("double", v.s, <<>>, <<>>)
        ELSE VError("ArrowInvalid")
    ELSE IF ty.k = "string" THEN
        IF v.k = "str" THEN Val("string", v.s, <<>>, <<>>)
        ELSE VError("ArrowInvalid")
    ELSE IF ty.k = "bool" THEN
        IF v.k = "bool" THEN Val("bool", v.s, <<>>, <<>>)
        ELSE VError("ArrowInvalid")
    ELSE IF ty.k = "timestamp" THEN
        IF v.k = "datetime" THEN Val("timestamp", v.s, <<>>, <<>>)
        ELSE VError("ArrowInvalid")
    ELSE IF ty.k \in {"list", "fixed_size_list"} THEN
        LET cells == [i \in 1..Len(v.items) |-> pa_scalar(v.items[i], ty.args[1])]
        IN  IF v.k # "list" THEN VError("ArrowInvalid")
            ELSE IF ty.k = "fixed_size_list" /\ Len(v.items) # ty.size
            THEN VError("ArrowInvalid")
            ELSE IF HasVError(cells) THEN FirstVError(cells)
            ELSE Val(ty.k, "", <<>>, cells)
    ELSE IF ty.k = "struct" THEN
        LET cells == [i \in 1..Len(ty.names) |->
                         pa_scalar(Get(v, VStr(ty.names[i])), ty.args[i])]
        IN  IF v.k # "dict" THEN VError("ArrowInvalid")
            ELSE IF HasVError(cells) THEN FirstVError(cells)
            ELSE Val("struct", "", [i \in 1..Len(ty.names) |-> VStr(ty.names[i])],
                     cells)
    ELSE IF ty.k = "map" THEN
        LET ks == [i \in 1..Len(v.keys) |-> pa_scalar(v.keys[i], ty.args[1])]
            cells == [i \in 1..Len(v.items) |-> pa_scalar(v.items[i], ty.args[2])]
        IN  IF v.k # "dict" THEN VError("ArrowInvalid")
            ELSE IF HasVError(ks) THEN FirstVError(ks)
            ELSE IF HasVError(cells) THEN FirstVError(cells)
            ELSE Val("map", "", ks, cells)
    \* no conversion of a Python object to a union scalar: no child is chosen
    ELSE VError("ArrowNotImplementedError")

\* arrow_struct.as_py(maps_as_pydicts="strict")
RECURSIVE as_py(_)
as_py(c) ==
    CASE c.k = "null"      -> VNone
      [] c.k = "int64"     -> VInt(c.s)
      [] c.k = "double"    -> VFloat(c.s)
      [] c.k = "string"    -> VStr(c.s)
      [] c.k = "bool"      -> VBool(c.s)
      [] c.k = "timestamp" -> VDatetime(c.s)
      [] c.k \in {"list", "fixed_size_list"} ->
            VList([i \in 1..Len(c.items) |-> as_py(c.items[i])])
      [] c.k \in {"struct", "map"} ->
            VDict([i \in 1..Len(c.keys) |-> as_py(c.keys[i])],
                  [i \in 1..Len(c.items) |-> as_py(c.items[i])])
      [] OTHER -> c

\* ArrowModel.model_serialization with context format "arrow", applied to
\* the default serialization v of a document of class cls
model_serialization(v, cls) == pa_scalar(jsanitize(v, FALSE, TRUE), arrowize(cls))

\* the keyword arguments ArrowModel.from_arrow hands to the constructor
from_arrow(arrow_struct) ==
    cleanup_msonables(jsanitize(as_py(arrow_struct), FALSE, FALSE))

-----------------------------------------------------------------------------
(* The documents and tagged objects explored.                              *)

\* a nested record class
SubDoc == ModelOf(<<"x", "y">>, <<TInt, Optional(TInt)>>)

\* a document class: scalars, a list, an MSONable field, a nested record
DocType ==
    ModelOf(<<"name", "score", "tags", "species", "sub", "updated">>,
            <<TStr, Optional(TFloat), Generic("list", <<TStr>>),
              Optional(MSONableOf("Species")), Optional(SubDoc), TDatetime>>)

Keys(names) == [i \in 1..Len(names) |-> VStr(names[i])]

SpeciesValues ==
    {VMSONable(Keys(<<"@module", "@class", "element", "oxidation_state", "spin">>),
               <<VStr("pymatgen.core.periodic_table"), VStr("Species"),
                 VStr("Fe"), VFloat("2.0"), spin>>) :
        spin \in {VNone, VFloat("0.5")}}

SubDocValues ==
    {VDict(Keys(<<"x", "y">>), <<VInt("1"), y>>) : y \in {VNone, VInt("2")}}

\* the default serializations of the documents of class DocType
Documents ==
    {VDict(Keys(<<"name", "score", "tags", "species", "sub", "updated">>),
           <<VStr("a"), score, tags, species, sub, VDatetime("2024-01-01 00:00:00")>>) :
        score \in {VNone, VFloat("1.5"), VFloat("nan")},
        tags \in {VList(<<>>), VList(<<VStr("x"), VStr("y")>>)},
        species \in SpeciesValues \cup {VNone},
        sub \in SubDocValues \cup {VNone}}

\* a document class with an integer-keyed map, a float and a list of floats
CountsDoc ==
    ModelOf(<<"counts", "ratio", "weights">>,
            <<MapOf(TInt, TFloat), TFloat, Generic("list", <<TFloat>>)>>)

\* the default serializations of the documents of class CountsDoc
CountsDocuments ==
    {VDict(Keys(<<"counts", "ratio", "weights">>), <<counts, ratio, weights>>) :
        counts \in {VDict(<<>>, <<>>)}
                   \cup {VDict(<<VInt("1")>>, <<x>>) :
                            x \in {VFloat("1.5"), VFloat("nan")}}
                   \cup {VDict(<<VInt("1"), VInt("2")>>, <<VFloat("1.5"), x>>) :
                            x \in {VFloat("0.5"), VFloat("nan")}},
        ratio \in {VFloat("1.5"), VFloat("nan"), VFloat("0")},
        weights \in {VList(<<>>), VList(<<VFloat("1.5")>>),
                     VList(<<VFloat("nan"), VFloat("1.5")>>)}}

\* a document class with a field that is an int or a str
UnionDoc == ModelOf(<<"x">>, <<UnionOf(<<TInt, TStr>>)>>)

\* the default serializations of the documents of class UnionDoc
UnionDocuments == {VDict(Keys(<<"x">>), <<x>>) : x \in {VInt("5"), VStr("hi")}}

EmptyDict == VDict(<<>>, <<>>)

\* values of the fields of a tagged object
FieldValues ==
    {VNone, EmptyDict, VInt("1"),
     VDict(Keys(<<"x">>), <<VNone>>),
     VDict(Keys(<<"x">>), <<EmptyDict>>),
     VList(<<VDict(Keys(<<"x", "y">>), <<VNone, VInt("1")>>)>>),
     VList(<<VList(<<VDict(Keys(<<"x">>), <<VNone>>)>>)>>)}

\* dicts carrying a "@class" tag
TaggedObjects ==
    {VDict(Keys(<<"@class", "a", "b">>), <<VStr("Structure"), a, b>>) :
        a \in FieldValues, b \in FieldValues}

\* a serialized tagged object with or without a None field
TaggedDicts ==
    {VDict(Keys(<<"@class", "element", "spin">>), <<VStr("Species"), VStr("Fe"), spin>>) :
        spin \in {VNone, VFloat("0.5")}}

\* decoded rows with a tagged object as a field, as an element of a list
\* field, as a value of a map field and as a field of an untagged record
NestedTaggedRows ==
    {VDict(Keys(<<"species", "all_species", "by_label", "sub">>),
           <<direct, VList(<<VInt("1"), listed>>),
             VDict(Keys(<<"Fe1">>), <<mapped>>),
             VDict(Keys(<<"x", "species">>), <<VNone, nested>>)>>) :
        direct \in TaggedDicts, listed \in TaggedDicts,
        mapped \in TaggedDicts, nested \in TaggedDicts}

\* no call of arrowize has returned yet
NoResult == Arrow("none", "", 0, <<>>, <<>>)

\* no document class is involved
NoDesc == NoneType

\* an optional number: None, or the number v
NoNumber == [given |-> FALSE, v |-> 0]

Number(x) == [given |-> TRUE, v |-> x]

\* an optional list: None, or the list v
NoList == [given |-> FALSE, v |-> <<>>]

List(l) == [given |-> TRUE, v |-> l]

\* the parameters of a request
Request(op, field, num_samples, min_val, max_val, material_ids, sort, properties) ==
    [op |-> op, field |-> field, num_samples |-> num_samples,
     min_val |-> min_val, max_val |-> max_val, material_ids |-> material_ids,
     sort |-> sort, properties |-> properties]

\* STORE_PARAMS: the aggregation pipeline, the material_id $in list of the
\* criteria, whether a sort is set, and the requested properties
StoreParams(pipeline, mpid_list, sort, properties) ==
    [pipeline |-> pipeline, mpid_list |-> mpid_list, sort |-> sort,
     properties |-> properties]

\* what post_process returns: a list with one SummaryStats, a list of
\* documents, or an exception
Response(k, err, field, num_samples, min, max, items) ==
    [k |-> k, err |-> err, field |-> field, num_samples |-> num_samples,
     min |-> min, max |-> max, items |-> items]

NoResponse == Response("none", "", "", 0, 0, 0, <<>>)

\* no request is being served
NoRequest ==
    /\ request = Request("", "", NoNumber, NoNumber, NoNumber, NoList, FALSE, <<>>)
    /\ query = StoreParams(<<>>, NoList, FALSE, <<>>)
    /\ docs = <<>>
    /\ response = NoResponse

\* the callers of one process
Threads == {1, 2}

\* a caller that has not called anything yet
IdleThread ==
    [pc |-> "idle", op |-> "", desc |-> NoDesc, result |-> NoResult,
     cleaned |-> NoValue, n |-> 0]

\* the module state after import, with no caller active
NoCalls ==
    /\ table = PY_PRIMITIVES_TO_ARROW
    /\ adapters = AdapterRoot
    /\ threads = [t \in Threads |-> IdleThread]

-----------------------------------------------------------------------------
(* Schema inference: one call of arrowize on one annotation.               *)

InitArrow ==
    /\ pc = "ready"
    /\ desc \in Descriptors
    /\ result = NoResult
    /\ value = NoValue
    /\ sanitized = NoValue
    /\ cell = NoValue
    /\ decoded = NoValue
    /\ caller_value = NoValue
    /\ NoCalls
    /\ NoRequest

\* ArrowModel.arrow_type / a direct call of arrowize
Arrowize ==
    /\ pc = "ready"
    /\ result' = arrowize(desc)
    /\ pc' = "done"
    /\ UNCHANGED <<desc, value, sanitized, cell, decoded, caller_value>>
    /\ UNCHANGED <<callVars, apiVars>>

NextArrow == Arrowize

SpecArrow == InitArrow /\ [][NextArrow]_vars

-----------------------------------------------------------------------------
(* The codec: a document is serialized to a pyarrow scalar and read back;  *)
(* a tagged object is stripped.                                            *)

InitCodec ==
    /\ pc = "ready"
    /\ \/ value \in Documents /\ desc = DocType
       \/ value \in CountsDocuments /\ desc = CountsDoc
       \/ value \in UnionDocuments /\ desc = UnionDoc
       \/ value \in TaggedObjects /\ desc = NoDesc
       \/ value \in NestedTaggedRows /\ desc = NoDesc
    /\ result = NoResult
    /\ sanitized = NoValue
    /\ cell = NoValue
    /\ decoded = NoValue
    /\ caller_value = value
    /\ NoCalls
    /\ NoRequest

\* doc.model_dump(context={"format": "arrow"})
Encode ==
    /\ pc = "ready"
    /\ desc # NoDesc
    /\ sanitized' = jsanitize(value, FALSE, TRUE)
    /\ cell' = model_serialization(value, desc)
    /\ pc' = "encoded"
    /\ UNCHANGED <<desc, result, value, decoded, caller_value>>
    /\ UNCHANGED <<callVars, apiVars>>

\* cls.from_arrow(arrow_struct)
Decode ==
    /\ pc = "encoded"
    /\ ~IsVError(cell)
    /\ decoded' = from_arrow(cell)
    /\ pc' = "decoded"
    /\ UNCHANGED <<desc, result, value, sanitized, cell, caller_value>>
    /\ UNCHANGED <<callVars, apiVars>>

\* remove_empty_keys(value) on a tagged object
Strip ==
    /\ pc = "ready"
    /\ value.k = "dict"
    /\ HasKey(value, VStr("@class"))
    /\ decoded' = remove_empty_keys(value)
    /\ caller_value' = remove_empty_keys(value)
    /\ pc' = "stripped"
    /\ UNCHANGED <<desc, result, value, sanitized, cell>>
    /\ UNCHANGED <<callVars, apiVars>>

\* cleanup_msonables(value)
Cleanup ==
    /\ pc = "ready"
    /\ value.k = "dict"
    /\ decoded' = cleanup_msonables(value)
    /\ caller_value' = value_after_cleanup(value)
    /\ pc' = "cleaned"
    /\ UNCHANGED <<desc, result, value, sanitized, cell>>
    /\ UNCHANGED <<callVars, apiVars>>

NextCodec == Encode \/ Decode \/ Strip \/ Cleanup

SpecCodec == InitCodec /\ [][NextCodec]_vars

-----------------------------------------------------------------------------
(* Concurrent callers: the threads of one process call arrowize and        *)
(* cleanup_msonables, each several times, on the same module state and the *)
(* same row.                                                               *)

\* most calls one caller makes
MaxCalls == 2

\* the annotations the callers resolve
CallDescriptors ==
    Primitives
    \cup {EnumOf("int"), ClassOf("str"), MSONableOf("Lattice"),
          MSONableOf("Element"), Optional(TInt), ForwardRef("datetime")}

\* the rows the callers share
SharedRows ==
    {VDict(Keys(<<"species", "x">>), <<s, VNone>>) : s \in TaggedDicts}

\* a memo that files the result of a call under the class name of its
\* argument
table_after_call_cached(primitives, obj, res) ==
    IF obj.n \in DOMAIN primitives /\ ~IsError(res)
    THEN [primitives EXCEPT ![obj.n] = res]
    ELSE primitives

\* PY_PRIMITIVES_TO_ARROW after arrowize(obj) has returned res: arrowize only
\* reads the table
table_after_call(primitives, obj, res) == primitives

InitCalls ==
    /\ pc = "ready"
    /\ desc = NoDesc
    /\ result = NoResult
    /\ value \in SharedRows
    /\ sanitized = NoValue
    /\ cell = NoValue
    /\ decoded = NoValue
    /\ caller_value = value
    /\ NoCalls
    /\ NoRequest

\* thread t enters arrowize(d)
CallArrowize(t) ==
    /\ threads[t].pc \in {"idle", "returned"}
    /\ threads[t].n < MaxCalls
    /\ \E d \in CallDescriptors :
          threads' = [threads EXCEPT ![t] =
                         [@ EXCEPT !.pc = "running", !.op = "arrowize",
                                   !.desc = d, !.result = NoResult,
                                   !.cleaned = NoValue]]
    /\ UNCHANGED <<pc, desc, result, value, sanitized, cell, decoded,
                   caller_value, table, adapters, apiVars>>

\* thread t leaves arrowize with the type resolved from the module state
ReturnArrowize(t) ==
    /\ threads[t].pc = "running"
    /\ threads[t].op = "arrowize"
    /\ LET res == arrowize_in(table, adapters, threads[t].desc)
       IN  /\ threads' = [threads EXCEPT ![t] =
                             [@ EXCEPT !.pc = "returned", !.result = res,
                                       !.n = @ + 1]]
           /\ table' = table_after_call(table, threads[t].desc, res)
    /\ UNCHANGED <<pc, desc, result, value, sanitized, cell, decoded,
                   caller_value, adapters, apiVars>>

\* thread t enters cleanup_msonables on the shared row
CallCleanup(t) ==
    /\ threads[t].pc \in {"idle", "returned"}
    /\ threads[t].n < MaxCalls
    /\ threads' = [threads EXCEPT ![t] =
                      [@ EXCEPT !.pc = "running", !.op = "cleanup",
                                !.desc = NoDesc, !.result = NoResult,
                                !.cleaned = NoValue]]
    /\ UNCHANGED <<pc, desc, result, value, sanitized, cell, decoded,
                   caller_value, table, adapters, apiVars>>

\* thread t leaves cleanup_msonables
ReturnCleanup(t) ==
    /\ threads[t].pc = "running"
    /\ threads[t].op = "cleanup"
    /\ threads' = [threads EXCEPT ![t] =
                      [@ EXCEPT !.pc = "returned",
                                !.cleaned = cleanup_msonables(caller_value),
                                !.n = @ + 1]]
    /\ caller_value' = value_after_cleanup(caller_value)
    /\ UNCHANGED <<pc, desc, result, value, sanitized, cell, decoded,
                   table, adapters, apiVars>>

NextCalls ==
    \E t \in Threads :
        \/ CallArrowize(t)
        \/ ReturnArrowize(t)
        \/ CallCleanup(t)
        \/ ReturnCleanup(t)

SpecCalls == InitCalls /\ [][NextCalls]_vars

-----------------------------------------------------------------------------
(* The summary routes of the API: SearchStatsQuery builds an aggregation   *)
(* pipeline and condenses the documents into one SummaryStats;             *)
(* MaterialIDsSearchQuery builds the material_id criteria and orders the   *)
(* documents.                                                              *)

\* longest list of material_ids in a request
MaxIds == 3

\* Python truthiness of an optional number: None and 0 are false
Truthy(x) == x.given /\ x.v # 0

\* a stage of a pipeline: {"$match": {field: {"$gte": gte, "$lte": lte}}},
\* {"$sample": {"size": size}} or {"$project": {field: 1, "_id": 0}}
Stage(stage, field, gte, lte, size) ==
    [stage |-> stage, field |-> field, gte |-> gte, lte |-> lte, size |-> size]

\* a document: its material_id, the name of its other field and the value
\* of that field
Doc(material_id, field, v) == [material_id |-> material_id, field |-> field, v |-> v]

Error(n) == Response("error", n, "", 0, 0, 0, <<>>)

\* SearchStatsQuery.query
stats_query(field, num_samples, min_val, max_val) ==
    LET match == IF Truthy(min_val) \/ Truthy(max_val)
                 THEN <<Stage("$match", field, min_val, max_val, NoNumber)>>
                 ELSE <<>>
        sample == IF Truthy(num_samples)
                  THEN <<Stage("$sample", "", NoNumber, NoNumber, num_samples)>>
                  ELSE <<>>
        project == <<Stage("$project", field, NoNumber, NoNumber, NoNumber)>>
    IN  StoreParams(match \o sample \o project, NoList, FALSE, <<>>)

\* max(values) and min(values)
Max(values) == CHOOSE x \in Range(values) : \A y \in Range(values) : y <= x

Min(values) == CHOOSE x \in Range(values) : \A y \in Range(values) : x <= y

\* SearchStatsQuery.post_process; the kernel density, the median and the
\* mean are numerical results of scipy and numpy and are not represented
stats_post_process(ds, q) ==
    IF ds = <<>> THEN Error("UnboundLocalError")
    ELSE
        LET field == ds[1].field
            first == q.pipeline[1]
            \* min_val and max_val are assigned in the loop over the $match
            \* entries, for an entry that has "$gte"
            assigned == first.stage = "$match" /\ first.gte.given
            values == [i \in 1..Len(ds) |-> ds[i].v]
        IN  IF ~assigned THEN Error("UnboundLocalError")
            ELSE Response("stats", "", field, Len(ds), first.gte.v,
                          IF first.lte.given THEN first.lte.v ELSE Max(values),
                          <<>>)

\* material_id.strip()
strip(s) ==
    CASE s = " mp-13" -> "mp-13"
      [] s = "mp-2 "  -> "mp-2"
      [] OTHER        -> s

\* MaterialIDsSearchQuery.query, for material_ids split at the commas
ids_query(material_ids) ==
    IF material_ids.given /\ material_ids.v # <<>>
    THEN StoreParams(<<>>,
                     List([i \in 1..Len(material_ids.v) |-> strip(material_ids.v[i])]),
                     FALSE, <<>>)
    ELSE StoreParams(<<>>, NoList, FALSE, <<>>)

\* {mpid: ind for ind, mpid in enumerate(mpid_list)}: a later position
\* replaces an earlier one
mpid_mapping(mpid_list) ==
    [mpid \in Range(mpid_list) |->
        (CHOOSE i \in 1..Len(mpid_list) :
            /\ mpid_list[i] = mpid
            /\ \A j \in 1..Len(mpid_list) : mpid_list[j] = mpid => j <= i) - 1]

\* one document put into a list sorted by key, after the entries whose key
\* is not larger
RECURSIVE insert(_, _, _)
insert(d, sorted_list, key) ==
    IF sorted_list = <<>> THEN <<d>>
    ELSE IF key[d.material_id] < key[Head(sorted_list).material_id]
    THEN <<d>> \o sorted_list
    ELSE <<Head(sorted_list)>> \o insert(d, Tail(sorted_list), key)

sorted_not_at_all(ds, key) == ds

\* sorted(docs, key=lambda d: mpid_mapping[d["material_id"]])
RECURSIVE sorted(_, _)
sorted(ds, key) ==
    IF ds = <<>> THEN <<>>
    ELSE insert(ds[Len(ds)], sorted(SubSeq(ds, 1, Len(ds) - 1), key), key)

\* MaterialIDsSearchQuery.post_process
ids_post_process(ds, q) ==
    IF ~q.sort /\ q.mpid_list.given /\ "material_id" \in Range(q.properties)
    THEN Response("docs", "", "", 0, 0, 0, sorted(ds, mpid_mapping(q.mpid_list.v)))
    ELSE Response("docs", "", "", 0, 0, 0, ds)

\* the summary documents of the store
StoreDocs ==
    <<Doc("mp-149", "band_gap", 1), Doc("mp-13", "band_gap", 2),
      Doc("mp-2", "band_gap", 3)>>

\* d passes the $match stage
matches(d, stage) ==
    /\ stage.gte.given => d.v >= stage.gte.v
    /\ stage.lte.given => d.v <= stage.lte.v

\* the document lists the store can return for a pipeline
Aggregate(pipeline) ==
    LET matched == IF pipeline[1].stage = "$match"
                   THEN SelectSeq(StoreDocs, LAMBDA d : matches(d, pipeline[1]))
                   ELSE StoreDocs
        samples == {i \in 1..Len(pipeline) : pipeline[i].stage = "$sample"}
        size == pipeline[CHOOSE i \in samples : TRUE].size.v
        project(d) == Doc("", pipeline[Len(pipeline)].field, d.v)
        picked == IF samples # {} /\ size < Len(matched)
                  THEN InjSeqsOf(Range(matched), size, size)
                  ELSE {matched}
    IN  {[i \in 1..Len(l) |-> project(l[i])] : l \in picked}

\* the document lists the store can return for the criteria, projected on
\* the requested properties
Find(q) ==
    LET found == {d \in Range(StoreDocs) :
                     q.mpid_list.given => d.material_id \in Range(q.mpid_list.v)}
        wanted(name) == name \in Range(q.properties)
        \* a query without properties returns whole documents
        project(d) ==
            IF q.properties = <<>> THEN d
            ELSE Doc(IF wanted("material_id") THEN d.material_id ELSE "",
                     IF wanted("band_gap") THEN d.field ELSE "",
                     IF wanted("band_gap") THEN d.v ELSE 0)
    IN  {[i \in 1..Len(l) |-> project(l[i])] :
            l \in InjSeqsOf(found, Cardinality(found), Cardinality(found))}

StatsRequests ==
    {Request("stats", "band_gap", num_samples, min_val, max_val, NoList, FALSE, <<>>) :
        num_samples \in {NoNumber, Number(0), Number(2)},
        min_val \in {NoNumber, Number(0), Number(2)},
        max_val \in {NoNumber, Number(0), Number(5)}}

RawIds == {"mp-149", "mp-13", " mp-13", "mp-2 "}

IdsRequests ==
    {Request("ids", "", NoNumber, NoNumber, NoNumber, material_ids, sort, properties) :
        material_ids \in {NoList} \cup {List(l) : l \in SeqsOf(RawIds, 0, MaxIds)},
        sort \in BOOLEAN,
        properties \in {<<>>, <<"material_id">>, <<"band_gap">>,
                        <<"material_id", "band_gap">>}}

InitApi ==
    /\ pc = "received"
    /\ desc = NoDesc
    /\ result = NoResult
    /\ value = NoValue
    /\ sanitized = NoValue
    /\ cell = NoValue
    /\ decoded = NoValue
    /\ caller_value = NoValue
    /\ NoCalls
    /\ request \in StatsRequests \cup IdsRequests
    /\ query = StoreParams(<<>>, NoList, FALSE, <<>>)
    /\ docs = <<>>
    /\ response = NoResponse

\* the state the API actions leave alone
codecAndCalls ==
    <<desc, result, value, sanitized, cell, decoded, caller_value, callVars>>

\* SearchStatsQuery.query is called with the parameters of the request
StatsQuery ==
    /\ pc = "received"
    /\ request.op = "stats"
    /\ query' = stats_query(request.field, request.num_samples,
                            request.min_val, request.max_val)
    /\ pc' = "queried"
    /\ UNCHANGED <<request, docs, response, codecAndCalls>>

\* the store runs the pipeline
StatsFetch ==
    /\ pc = "queried"
    /\ request.op = "stats"
    /\ docs' \in Aggregate(query.pipeline)
    /\ pc' = "fetched"
    /\ UNCHANGED <<request, query, response, codecAndCalls>>

\* SearchStatsQuery.post_process(docs, query)
StatsPostProcess ==
    /\ pc = "fetched"
    /\ request.op = "stats"
    /\ response' = stats_post_process(docs, query)
    /\ pc' = "processed"
    /\ UNCHANGED <<request, query, docs, codecAndCalls>>

\* MaterialIDsSearchQuery.query is called; the resource adds the sort and
\* the properties of the other operators to the query
IdsQuery ==
    /\ pc = "received"
    /\ request.op = "ids"
    /\ query' = [ids_query(request.material_ids) EXCEPT
                    !.sort = request.sort, !.properties = request.properties]
    /\ pc' = "queried"
    /\ UNCHANGED <<request, docs, response, codecAndCalls>>

\* the store answers the criteria
IdsFetch ==
    /\ pc = "queried"
    /\ request.op = "ids"
    /\ docs' \in Find(query)
    /\ pc' = "fetched"
    /\ UNCHANGED <<request, query, response, codecAndCalls>>

\* MaterialIDsSearchQuery.post_process(docs, query)
IdsPostProcess ==
    /\ pc = "fetched"
    /\ request.op = "ids"
    /\ response' = ids_post_process(docs, query)
    /\ pc' = "processed"
    /\ UNCHANGED <<request, query, docs, codecAndCalls>>

NextApi ==
    \/ StatsQuery
    \/ StatsFetch
    \/ StatsPostProcess
    \/ IdsQuery
    \/ IdsFetch
    \/ IdsPostProcess

SpecApi == InitApi /\ [][NextApi]_vars

-----------------------------------------------------------------------------
(* Properties of schema inference.                                         *)

Called == pc = "done"

\* the resolved types of the non-None members of a union annotation
Resolved(u) ==
    LET kept == FilterSeq(u.args, NoneType)
    IN  [i \in 1..Len(kept) |-> arrowize(kept[i])]

ExpectedChildNames == <<"child_0", "child_1", "child_2", "child_3", "child_4">>

\* C2 as claimed: a union whose non-None members resolve to at least two
\* distinct pyarrow types gives a dense union with one child per distinct
\* resolved type, in first-seen order.
C2_OnePerDistinctType ==
    (Called /\ desc.k = "union" /\ ~IsError(result)
       /\ Cardinality(Range(Resolved(desc))) >= 2)
    => /\ result.k = "dense_union"
       /\ result.args = Distinct(Resolved(desc))
       /\ Len(result.names) = Cardinality(Range(Resolved(desc)))

\* C2 amended: such a union gives a dense union with one child per non-None
\* member, in member order, child i holding the resolved type of member i;
\* members that resolve to the same type each keep their own child.
C2_OnePerMember ==
    (Called /\ desc.k = "union" /\ ~IsError(result)
       /\ Cardinality(Range(Resolved(desc))) >= 2)
    => /\ result.k = "dense_union"
       /\ result.args = Resolved(desc)
       /\ Len(result.names) = Len(FilterSeq(desc.args, NoneType))

C2_Witness ==
    /\ Called
    /\ desc = UnionOf(<<TInt, LiteralOf(<<LitVal("int", "1")>>), TStr>>)
    /\ result = DenseUnionType(<<"child_0", "child_1", "child_2">>,
                               <<Int64, Int64, Utf8>>)

\* C3 as claimed: a tuple of n >= 2 members that all resolve to the same
\* pyarrow type T gives FixedList(T, n), whether or not the member
\* annotations are identical.
C3_SameResolvedType ==
    (Called /\ desc.k = "seq" /\ desc.n = "tuple" /\ Len(desc.args) >= 2
       /\ ~IsError(result)
       /\ \A i \in 1..Len(desc.args) :
             arrowize(desc.args[i]) = arrowize(desc.args[1]))
    => result = FixedListType(arrowize(desc.args[1]), Len(desc.args))

\* C3 amended: a tuple of n >= 2 members gives FixedList(T, n) when every
\* member annotation is equal to the first one; when the annotations differ
\* it gives a dense union with one child per position, also when all
\* positions resolve to the same pyarrow type.
C3_SameAnnotation ==
    (Called /\ desc.k = "seq" /\ desc.n = "tuple" /\ Len(desc.args) >= 2
       /\ ~IsError(result))
    => IF \A i \in 1..Len(desc.args) : TypeEq(desc.args[i], desc.args[1])
       THEN result = FixedListType(arrowize(desc.args[1]), Len(desc.args))
       ELSE /\ result.k = "dense_union"
            /\ result.args = [i \in 1..Len(desc.args) |-> arrowize(desc.args[i])]

C3_Witness ==
    /\ Called
    /\ desc = Generic("tuple", <<TInt, Optional(TInt)>>)
    /\ result = DenseUnionType(<<"child_0", "child_1">>, <<Int64, Int64>>)

\* C4 as claimed: a map whose key annotation is Optional[int] makes
\* arrowize raise.
C4_OptionalKeyRaises ==
    (Called /\ desc.k = "map" /\ desc.args[1] = Optional(TInt))
    => IsError(result)

\* C4 amended: for a map whose key annotation is Optional[int] the key
\* resolves to Int64 and arrowize returns Map(Int64, arrowize(V)), raising
\* only what arrowize(V) raises.
C4_OptionalKeyResolves ==
    (Called /\ desc.k = "map" /\ desc.args[1] = Optional(TInt))
    => IF IsError(arrowize(desc.args[2]))
       THEN result = arrowize(desc.args[2])
       ELSE result = MapType(Int64, arrowize(desc.args[2]))

C4_Witness ==
    /\ Called
    /\ desc = MapOf(Optional(TInt), TStr)
    /\ result = MapType(Int64, Utf8)

\* C6: a record (pydantic model or TypedDict) whose field annotations are
\* all accepted gives a struct with one field per declared field, under the
\* declared names and in declaration order, field i holding the resolved
\* type of declared field i.
C6_StructKeepsDeclaration ==
    (Called /\ desc.k \in {"model", "typeddict"}
       /\ \A i \in 1..Len(desc.args) : ~IsError(arrowize(desc.args[i])))
    => /\ result.k = "struct"
       /\ result.names = desc.names
       /\ Len(result.args) = Len(desc.args)
       /\ \A i \in 1..Len(desc.args) : result.args[i] = arrowize(desc.args[i])

C6_Witness ==
    /\ Called
    /\ desc = ModelOf(<<"b", "a", "c">>, <<TInt, TStr, Optional(TInt)>>)
    /\ result = StructType(<<"b", "a", "c">>, <<Int64, Utf8, Int64>>)

\* the union u without its None member (the member itself when one is left)
WithoutNone(u) ==
    LET kept == FilterSeq(u.args, NoneType)
    IN  IF Len(kept) = 1 THEN kept[1] ELSE UnionOf(kept)

\* C7: for every annotation T that arrowize accepts, Optional[T] resolves to
\* the same type as T, and a union with a None member in any position
\* resolves to the same type as the union without it.
C7_OptionalIsTransparent ==
    /\ (Called /\ ~IsError(result)) => arrowize(Optional(desc)) = result
    /\ (Called /\ desc.k = "union" /\ NoneType \in Range(desc.args)
          /\ ~IsError(arrowize(WithoutNone(desc))))
         => result = arrowize(WithoutNone(desc))

C7_Witness ==
    /\ Called
    /\ desc = UnionOf(<<NoneType, TInt, TStr>>)
    /\ result = DenseUnionType(<<"child_0", "child_1">>, <<Int64, Utf8>>)
    /\ arrowize(UnionOf(<<TInt, TStr>>)) = result

\* a bare container or Any occurs in d: d itself, or a member of a
\* list/tuple/set, a map key or value, a union member or a record field
RECURSIVE HasAmbiguous(_)
HasAmbiguous(d) ==
    \/ d.k = "any"
    \/ d.k = "bare" /\ d.n \in BareContainers
    \/ /\ d.k \in {"seq", "map", "union", "model", "typeddict"}
       /\ \E i \in 1..Len(d.args) : HasAmbiguous(d.args[i])

\* C8: arrowize raises whenever a bare container or Any occurs anywhere in
\* the annotation.
C8_AmbiguousAlwaysRaises ==
    (Called /\ HasAmbiguous(desc)) => IsError(result)

C8_Witness ==
    /\ Called
    /\ desc = UnionOf(<<TInt, Bare("list")>>)
    /\ result = Raise("AssertionError")

LiteralClasses(d) == {d.args[i].n : i \in 1..Len(d.args)}

\* C10 as claimed: a Literal whose members all have the same concrete
\* primitive class resolves to that primitive's type, and a Literal whose
\* members have more than one concrete class raises, in whatever order the
\* members are listed.
C10_MixedLiteralRaises ==
    (Called /\ desc.k = "literal")
    => IF Cardinality(LiteralClasses(desc)) = 1
       THEN result = PY_PRIMITIVES_TO_ARROW[desc.args[1].n]
       ELSE IsError(result)

-----------------------------------------------------------------------------
(* Properties of the codec.                                                *)

\* b is what the constructor takes for a: the same value, but for the
\* None entries missing inside a tagged object, and for the text of a
\* datetime, which the constructor parses back
RECURSIVE SameButElided(_, _, _)
SameButElided(a, b, tagged) ==
    IF a.k \in {"dict", "msonable"} THEN
        LET inside == tagged \/ HasKey(a, VStr("@class"))
        IN  /\ b.k = "dict"
            /\ \A i \in 1..Len(a.keys) :
                  IF HasKey(b, Str(a.keys[i]))
                  THEN SameButElided(a.items[i], Lookup(b, Str(a.keys[i])), inside)
                  ELSE inside /\ is_none_or_empty(a.items[i])
            /\ \A j \in 1..Len(b.keys) :
                  \E i \in 1..Len(a.keys) : Str(a.keys[i]) = b.keys[j]
    ELSE IF a.k = "list" THEN
        /\ b.k = "list"
        /\ Len(b.items) = Len(a.items)
        /\ \A i \in 1..Len(a.items) : SameButElided(a.items[i], b.items[i], tagged)
    ELSE IF a.k = "datetime" THEN b.k \in {"datetime", "str"} /\ b.s = a.s
    ELSE b = a

\* C1 as claimed: a document that is serialized to arrow and read back has
\* every field equal to the original, but for the None fields elided
\* inside tagged objects.
C1_RoundTrip ==
    pc = "decoded"
    => \A i \in 1..Len(value.keys) :
          /\ HasKey(decoded, value.keys[i])
          /\ SameButElided(value.items[i], Lookup(decoded, value.keys[i]), FALSE)

\* C5 as claimed: stripping a tagged object removes a field whose value is
\* an empty dict.
C5_EmptyDictRemoved ==
    pc = "stripped"
    => \A i \in 1..Len(value.keys) :
          value.items[i] = EmptyDict => ~HasKey(decoded, value.keys[i])

\* C5 amended: stripping a tagged object removes exactly the fields whose
\* value is None; a field whose value is an empty dict is kept, with the
\* empty dict as its value.
C5_OnlyNoneRemoved ==
    pc = "stripped"
    => \A i \in 1..Len(value.keys) :
          /\ value.items[i] = VNone <=> ~HasKey(decoded, value.keys[i])
          /\ value.items[i] = EmptyDict
               => /\ HasKey(decoded, value.keys[i])
                  /\ Lookup(decoded, value.keys[i]) = EmptyDict

C5_Witness ==
    /\ pc = "stripped"
    /\ value = VDict(Keys(<<"@class", "a", "b">>),
                     <<VStr("Structure"), EmptyDict, VNone>>)
    /\ decoded = VDict(Keys(<<"@class", "a">>), <<VStr("Structure"), EmptyDict>>)

-----------------------------------------------------------------------------
(* Further properties of schema inference.                                 *)

\* the pyarrow types of the primitive table
PrimitiveTypes == {Int64, Float64, Utf8, Bool, Timestamp}

\* C11 as claimed: a map whose key resolves to one primitive type gives
\* Map(arrowize(K), arrowize(V)), and a map whose key resolves to anything
\* else (a dense union, a list, a fixed-size list, a struct, a map) raises.
C11_OnlyPrimitiveKeys ==
    (Called /\ desc.k = "map"
       /\ ~IsError(arrowize(desc.args[1])) /\ ~IsError(arrowize(desc.args[2])))
    => IF arrowize(desc.args[1]) \in PrimitiveTypes
       THEN result = MapType(arrowize(desc.args[1]), arrowize(desc.args[2]))
       ELSE IsError(result)

-----------------------------------------------------------------------------
(* Further properties of the codec.                                        *)

\* no dict of v carries a "@class" tag and no member of v is an MSONable
RECURSIVE NoTagged(_)
NoTagged(v) ==
    /\ v.k # "msonable"
    /\ ~(v.k = "dict" /\ HasKey(v, VStr("@class")))
    /\ \A i \in 1..Len(v.items) : NoTagged(v.items[i])

\* b has the shape, the keys, the members and the leaves of a
RECURSIVE Unchanged(_, _)
Unchanged(a, b) ==
    IF a.k \in {"dict", "list"}
    THEN /\ b.k = a.k
         /\ b.keys = a.keys
         /\ Len(b.items) = Len(a.items)
         /\ \A i \in 1..Len(a.items) : Unchanged(a.items[i], b.items[i])
    ELSE b = a

\* b is a but for every NaN leaf, which is the integer 0 in b, and every
\* dict key, which is the string form of the key in b
RECURSIVE UnchangedButNaNAndKeys(_, _)
UnchangedButNaNAndKeys(a, b) ==
    IF a.k \in {"dict", "list"}
    THEN /\ b.k = a.k
         /\ Len(b.keys) = Len(a.keys)
         /\ \A i \in 1..Len(a.keys) : b.keys[i] = VStr(a.keys[i].s)
         /\ Len(b.items) = Len(a.items)
         /\ \A i \in 1..Len(a.items) :
               UnchangedButNaNAndKeys(a.items[i], b.items[i])
    ELSE IF a = VFloat("nan") THEN b = VInt("0")
    ELSE b = a

RECURSIVE NonesKept(_, _)
NonesKept(a, b) ==
    IF a.k = "msonable" \/ (a.k = "dict" /\ HasKey(a, VStr("@class"))) THEN TRUE
    ELSE IF a.k = "dict" THEN
        /\ b.k = "dict"
        /\ \A i \in 1..Len(a.keys) :
              /\ HasKey(b, Str(a.keys[i]))
              /\ IF a.items[i] = VNone
                 THEN Lookup(b, Str(a.keys[i])) = VNone
                 ELSE NonesKept(a.items[i], Lookup(b, Str(a.keys[i])))
    ELSE IF a.k = "list" THEN
        /\ b.k = "list"
        /\ Len(b.items) = Len(a.items)
        /\ \A i \in 1..Len(a.items) : NonesKept(a.items[i], b.items[i])
    ELSE TRUE

\* C13: after cleanup_msonables, and after from_arrow, every None field
\* outside the tagged objects (a None top-level field, a None field of an
\* untagged nested record) is still present with the value None.
C13_NonesOutsideTaggedKept ==
    pc \in {"cleaned", "decoded"} => NonesKept(value, decoded)

C13_Witness ==
    /\ pc = "decoded"
    /\ desc = DocType
    /\ Get(value, VStr("score")) = VNone
    /\ Get(value, VStr("sub")) = VDict(Keys(<<"x", "y">>), <<VInt("1"), VNone>>)
    /\ HasKey(decoded, VStr("score"))
    /\ Get(decoded, VStr("score")) = VNone
    /\ Get(decoded, VStr("sub")) = VDict(Keys(<<"x", "y">>), <<VInt("1"), VNone>>)

-----------------------------------------------------------------------------
(* Properties of the remaining dispatch branches.                          *)

\* the MSONable classes with a registered adapter
AdaptedClasses == {"Lattice", "Species"}

\* C14: an MSONable class without a __pydantic_model__ adapter makes
\* arrowize raise, and one with an adapter resolves to exactly the type of
\* the adapter's root annotation.
C14_AdapterRequired ==
    (Called /\ desc.k = "msonable")
    => IF desc.n \in AdaptedClasses
       THEN /\ result = arrowize(AdapterRoot[desc.n])
            /\ result.k = "struct"
       ELSE result = Raise("AssertionError")

C14_Witness ==
    /\ Called
    /\ desc = MSONableOf("Species")
    /\ result = StructType(
                  <<"@module", "@class", "element", "oxidation_state", "spin">>,
                  <<Utf8, Utf8, Utf8, Float64, Float64>>)

\* C15 as claimed: a forward reference is resolved against the namespace
\* that encloses the reference and arrowize returns the type of what the
\* name stands for there; a name that cannot be resolved raises.
C15_ResolvedInEnclosingNamespace ==
    (Called /\ desc.k = "ref")
    => IF desc.n \in DOMAIN ReferenceNamespace
       THEN result = arrowize(ReferenceNamespace[desc.n])
       ELSE IsError(result)

\* t is a finite, fully resolved pyarrow type: every node is a pyarrow type
\* of the right arity, none is an exception, a missing value or a reference
RECURSIVE FullyResolved(_)
FullyResolved(t) ==
    /\ \/ t \in PrimitiveTypes
       \/ t.k = "list" /\ Len(t.args) = 1
       \/ t.k = "fixed_size_list" /\ Len(t.args) = 1 /\ t.size >= 2
       \/ t.k = "map" /\ Len(t.args) = 2
       \/ t.k \in {"struct", "dense_union"} /\ Len(t.names) = Len(t.args)
    /\ \A i \in 1..Len(t.args) : FullyResolved(t.args[i])

\* the members of d that arrowize has to resolve
MembersToResolve(d) ==
    IF d.k = "union" THEN FilterSeq(d.args, NoneType)
    ELSE IF d.k \in {"seq", "map", "model", "typeddict"} THEN d.args
    ELSE <<>>

\* C16: arrowize either raises or returns a finite, fully resolved type,
\* and it raises whenever one of the members it has to resolve is rejected.
C16_RaisesOrFullyResolved ==
    Called
    => /\ IsError(result) \/ FullyResolved(result)
       /\ (\E i \in 1..Len(MembersToResolve(desc)) :
              IsError(arrowize(MembersToResolve(desc)[i])))
            => IsError(result)

C16_Witness ==
    /\ Called
    /\ desc = ModelOf(<<"b", "a", "c">>, <<TInt, TStr, Bare("dict")>>)
    /\ result = Raise("AssertionError")

\* C17 as claimed: every pydantic document model of the emmet.core modules
\* resolves to a pyarrow type without raising.
C17_CoreModelsResolve ==
    (Called /\ desc \in CoreModels) => ~IsError(result) /\ FullyResolved(result)

\* C18: a union with two or more variants other than None that all resolve to
\* the same pyarrow type resolves to that single type, not to a dense union.
C18_EqualVariantsCollapse ==
    (/\ Called
     /\ desc.k = "union"
     /\ Len(Resolved(desc)) >= 2
     /\ ~HasError(Resolved(desc))
     /\ Cardinality(Range(Resolved(desc))) = 1)
    => /\ result = Resolved(desc)[1]
       /\ result.k # "dense_union"

C18_Witness ==
    /\ Called
    /\ desc = UnionOf(<<TInt, LiteralOf(<<LitVal("int", "1")>>)>>)
    /\ result = Int64

\* the types the members of a list, tuple or set annotation resolve to
ResolvedMembers(t) == [i \in 1..Len(t.args) |-> arrowize(t.args[i])]

\* C19: a tuple whose elements resolve to at least two different pyarrow
\* types resolves to a dense union with one child per position, named
\* child_0 .. child_{n-1}, child_i of the type of element i; positions of
\* equal type are not merged.
C19_OneChildPerPosition ==
    (/\ Called
     /\ desc.k = "seq"
     /\ desc.n = "tuple"
     /\ ~HasError(ResolvedMembers(desc))
     /\ Cardinality(Range(ResolvedMembers(desc))) >= 2)
    => /\ result.k = "dense_union"
       /\ Len(result.args) = Len(desc.args)
       /\ result.names = SubSeq(ExpectedChildNames, 1, Len(desc.args))
       /\ \A i \in 1..Len(desc.args) : result.args[i] = arrowize(desc.args[i])

C19_Witness ==
    /\ Called
    /\ desc = Generic("tuple", <<TInt, TStr, TInt>>)
    /\ result = DenseUnionType(<<"child_0", "child_1", "child_2">>,
                               <<Int64, Utf8, Int64>>)

\* C20: every Enum subclass resolves to Utf8, also when it subclasses str or
\* int: no other branch of the dispatch takes precedence over the enum rule.
C20_EnumIsUtf8 ==
    (Called /\ desc.k = "enum") => result = Utf8

C20_Witness ==
    /\ Called
    /\ desc = EnumOf("int")
    /\ result = Utf8

\* a union of two different primitives, without a None variant
IsTwoPrimitiveUnion(d) ==
    /\ d.k = "union"
    /\ Len(d.args) = 2
    /\ d.args[1] \in Primitives
    /\ d.args[2] \in Primitives
    /\ d.args[1] # d.args[2]

-----------------------------------------------------------------------------
(* Depth and reach of the stripping.                                       *)

\* no dict of v, at any depth, has a key whose value is None
RECURSIVE NoNoneField(_)
NoNoneField(v) ==
    /\ v.k = "dict" => \A i \in 1..Len(v.items) : v.items[i] # VNone
    /\ \A i \in 1..Len(v.items) : NoNoneField(v.items[i])

\* C28 as claimed: after remove_empty_keys no dict at any depth of a tagged
\* object still has a key whose value is None, whether the dict is reached
\* through nested dicts, through a list of dicts, or through a list nested
\* inside another list.
C28_StrippedAtEveryDepth ==
    pc = "stripped" => NoNoneField(decoded)

\* every dict of v that carries a "@class" tag has no field whose value is
\* None
RECURSIVE TaggedStripped(_)
TaggedStripped(v) ==
    /\ is_msonable_dict(v) => \A i \in 1..Len(v.items) : v.items[i] # VNone
    /\ \A i \in 1..Len(v.items) : TaggedStripped(v.items[i])

\* C29 as claimed: cleanup_msonables removes the None fields of every tagged
\* dict below the root of the value: one that is an element of a list field,
\* a value of a map field or a field of an untagged nested record as well as
\* one that is the direct value of a top-level field.
C29_EveryTaggedDictStripped ==
    pc = "cleaned" => \A i \in 1..Len(decoded.items) : TaggedStripped(decoded.items[i])

-----------------------------------------------------------------------------
(* Union-typed fields in the codec.                                        *)

\* the child of DenseUnion([child_0: Int64, child_1: Utf8]) whose type
\* matches the runtime type of v
MatchingChild(v) == IF v.k = "int" THEN "child_0" ELSE "child_1"

\* C22 as claimed: a value of a field typed Union[int, str], with the schema
\* DenseUnion([child_0: Int64, child_1: Utf8]), is encoded into the child
\* whose type matches its runtime type (5 into child_0, "hi" into child_1),
\* and decoding returns the original scalar with its original type.
C22_UnionValueSelectsChild ==
    /\ (pc = "encoded" /\ desc = UnionDoc)
         => /\ ~IsVError(cell)
            /\ Get(cell, VStr("x")).k = "dense_union"
            /\ Get(cell, VStr("x")).s = MatchingChild(Get(value, VStr("x")))
    /\ (pc = "decoded" /\ desc = UnionDoc)
         => Get(decoded, VStr("x")) = Get(value, VStr("x"))

-----------------------------------------------------------------------------
(* Effects on the caller's objects.                                        *)

\* C30: cleanup_msonables does not mutate the value passed to it: the in-place
\* deletions of remove_empty_keys are applied to the copy built by jsanitize,
\* so after the call the caller's dict has the keys and values it had before.
C30_ArgumentNotMutated ==
    pc = "cleaned" => caller_value = value

C30_Witness ==
    /\ pc = "cleaned"
    /\ value \in NestedTaggedRows
    /\ Get(value, VStr("species")) =
          VDict(Keys(<<"@class", "element", "spin">>),
                <<VStr("Species"), VStr("Fe"), VNone>>)
    /\ Get(decoded, VStr("species")) =
          VDict(Keys(<<"@class", "element">>), <<VStr("Species"), VStr("Fe")>>)
    /\ caller_value = value

-----------------------------------------------------------------------------
(* Properties of repeated and concurrent calls.                            *)

\* the pyarrow type of each primitive
ExpectedPrimitiveType(p) ==
    CASE p = "int"      -> Int64
      [] p = "float"    -> Float64
      [] p = "str"      -> Utf8
      [] p = "bool"     -> Bool
      [] p = "datetime" -> Timestamp

\* thread t has returned from arrowize
Returned(t) == threads[t].pc = "returned" /\ threads[t].op = "arrowize"

\* C21: arrowize maps int to Int64, float to Float64, str to Utf8, bool to
\* Bool and datetime to Timestamp[us], and a call on a primitive returns that
\* type whatever calls were made before it.
C21_PrimitivesFixedAndStable ==
    \A t \in Threads :
        (Returned(t) /\ threads[t].desc \in Primitives)
        => threads[t].result = ExpectedPrimitiveType(threads[t].desc.n)

C21_Witness ==
    /\ Returned(1)
    /\ threads[1].n = 2
    /\ threads[1].desc = TBool
    /\ threads[1].result = Bool
    /\ threads[2].n >= 1

\* C23: arrowize and cleanup_msonables write no shared state: under every
\* interleaving of concurrent calls the primitive table, the adapter registry
\* and the shared row stay as they were, and every call returns what the
\* same call returns when it runs alone.
C23_NoSharedWrites ==
    /\ table = PY_PRIMITIVES_TO_ARROW
    /\ adapters = AdapterRoot
    /\ caller_value = value
    /\ \A t \in Threads :
          threads[t].pc = "returned"
          => /\ threads[t].op = "arrowize"
                  => threads[t].result = arrowize(threads[t].desc)
             /\ threads[t].op = "cleanup"
                  => threads[t].cleaned = cleanup_msonables(value)

\* one caller has returned from cleanup_msonables while the other is inside
\* arrowize, after an earlier call of its own
C23_Witness ==
    /\ threads[1].pc = "returned"
    /\ threads[1].op = "cleanup"
    /\ threads[1].cleaned =
          VDict(Keys(<<"species", "x">>),
                <<VDict(Keys(<<"@class", "element">>),
                        <<VStr("Species"), VStr("Fe")>>), VNone>>)
    /\ threads[2].pc = "running"
    /\ threads[2].op = "arrowize"
    /\ threads[2].n = 1
    /\ caller_value = value

-----------------------------------------------------------------------------
(* Properties of the summary routes of the API.                            *)

\* the pipeline that restricts to every bound that is given
ExpectedPipeline(r) ==
    LET match == IF r.min_val.given \/ r.max_val.given
                 THEN <<Stage("$match", r.field, r.min_val, r.max_val, NoNumber)>>
                 ELSE <<>>
        sample == IF r.num_samples.given
                  THEN <<Stage("$sample", "", NoNumber, NoNumber, r.num_samples)>>
                  ELSE <<>>
    IN  match \o sample \o <<Stage("$project", r.field, NoNumber, NoNumber, NoNumber)>>

\* C25 as claimed: the pipeline of SearchStatsQuery.query has a $match stage
\* with $gte = min_val exactly when min_val is given (0 included) and
\* $lte = max_val exactly when max_val is given (0 included), then a $sample
\* stage exactly when num_samples is given, and ends with the $project stage.
C25_EveryGivenBoundRestricts ==
    (pc \in {"queried", "fetched", "processed"} /\ request.op = "stats")
    => query.pipeline = ExpectedPipeline(request)

\* the values of the documents
Values(ds) == [i \in 1..Len(ds) |-> ds[i].v]

\* the bounds the first stage of the pipeline carries
RequestedMin(q) ==
    IF q.pipeline[1].stage = "$match" THEN q.pipeline[1].gte ELSE NoNumber

RequestedMax(q) ==
    IF q.pipeline[1].stage = "$match" THEN q.pipeline[1].lte ELSE NoNumber

\* C26 as claimed: for every non-empty list of documents and every pipeline
\* SearchStatsQuery.query can produce, post_process returns one SummaryStats
\* whose min and max are the requested bound when it is given and the
\* minimum / maximum of the document values otherwise; it never fails on an
\* unassigned variable.
C26_AlwaysOneSummaryStats ==
    (pc = "processed" /\ request.op = "stats" /\ docs # <<>>)
    => /\ response.k = "stats"
       /\ response.min = IF RequestedMin(query).given
                         THEN RequestedMin(query).v ELSE Min(Values(docs))
       /\ response.max = IF RequestedMax(query).given
                         THEN RequestedMax(query).v ELSE Max(Values(docs))

\* post_process reorders the documents of this query
Reorders(q) ==
    ~q.sort /\ q.mpid_list.given /\ "material_id" \in Range(q.properties)

\* every document of items stands at a position of its material_id in
\* mpid_list, and these positions do not decrease along items
OrderedByPosition(items, mpid_list) ==
    \E p \in [1..Len(items) -> 1..Len(mpid_list)] :
        /\ \A i \in 1..Len(items) : mpid_list[p[i]] = items[i].material_id
        /\ \A i, j \in 1..Len(items) : i < j => p[i] <= p[j]

\* C27: when the query has no sort, material_id is among the requested
\* properties and the criteria hold a material_id $in list, post_process
\* returns the same documents ordered by the position of their material_id
\* in the requested list; in every other case it returns the documents
\* unchanged, in their original order.
C27_OrderedByRequestedIds ==
    (pc = "processed" /\ request.op = "ids")
    => /\ response.k = "docs"
       /\ IF Reorders(query)
          THEN /\ Len(response.items) = Len(docs)
               /\ Range(response.items) = Range(docs)
               /\ OrderedByPosition(response.items, query.mpid_list.v)
          ELSE response.items = docs

C27_Witness ==
    /\ pc = "processed"
    /\ request.op = "ids"
    /\ request.material_ids = List(<<"mp-149", " mp-13">>)
    /\ query = StoreParams(<<>>, List(<<"mp-149", "mp-13">>), FALSE, <<"material_id">>)
    /\ docs = <<Doc("mp-13", "", 0), Doc("mp-149", "", 0)>>
    /\ response.items = <<Doc("mp-149", "", 0), Doc("mp-13", "", 0)>>

====
